---------------------------- MODULE Spec2Model ----------------------------
(***************************************************************************)
(* A model of the bandcamp wishlist scraper (src/main.go): one run of      *)
(* main, statement by statement, with GetWishlist inlined as its own       *)
(* program positions.                                                      *)
(*                                                                         *)
(* Text is modelled as a sequence of lexemes.  A lexeme is either one of   *)
(* the literal pieces the regular expression and strings.ReplaceAll look   *)
(* for, a newline, or a run of other text.  Sequences are 1-based, so the  *)
(* Go slice element datablobMatch[1] is element 2 of the model           *)
(* datablobMatch.                                                          *)
(***************************************************************************)
EXTENDS Integers, Sequences, FiniteSets, TLC

VARIABLES
    pc,            \* position of the run in main / GetWishlist
    err,           \* the err variable of the current frame
    stdout,        \* lines written by fmt.Println
    stderr,        \* lines written by the runtime
    exitCode,      \* -1 while running, then the process exit status
    getAcq,        \* number of GET response bodies acquired
    getRel,        \* number of Close calls on the GET response body
    postAcq,       \* number of POST response bodies acquired
    postRel,       \* number of Close calls on the POST response body
    deferMain,     \* the deferred resp.Body.Close() of main is registered
    deferGw,       \* the deferred resp.Body.Close() of GetWishlist is registered
    body,          \* the HTML body read in main
    blobDoc,       \* the JSON document the JSONESC lexeme of the body lexeme spells
    datablobMatch, \* result of FindStringSubmatch
    pagedata,      \* the unescaped capture
    datablob,      \* the decoded DataBlob
    request,       \* the JSON object sent by the last POST
    respDoc,       \* the JSON document read from the POST response
    response,      \* the local response of GetWishlist
    nextPage,      \* nextPage of main
    steps          \* log of the statements executed so far

vars == <<pc, err, stdout, stderr, exitCode, getAcq, getRel, postAcq, postRel,
          deferMain, deferGw, body, blobDoc, datablobMatch, pagedata, datablob,
          request, respDoc, response, nextPage, steps>>

-----------------------------------------------------------------------------
(* Bounds of the model *)

MaxSeq == 3
MaxItems == 2
MaxBody == 6

(* Lexemes *)

ID == "id=\"pagedata\""
DB == "data-blob=\""
Q == "\""
GT == ">"
QUOT == "&quot;"
NL == "\n"
X == "text"
JSONESC == "json-with-&quot;"
JSON == "json"

Lexemes == {ID, DB, Q, GT, QUOT, NL, X}

Ids == {"a", "b"}
URLs == {"u1", "u2"}
Cursors == {"", "w:1"}
CollectionCursors == {"", "c:9"}
FanIds == {0, 305, -12}

NoErr == "nil"
NetworkError == "NetworkError"
ReadError == "ReadError"
MalformedBlobError == "MalformedBlobError"
MalformedResponseError == "MalformedResponseError"
ErrorMessages == {NetworkError, ReadError, MalformedBlobError, MalformedResponseError}
PanicMessage == "panic: runtime error: index out of range [1] with length 0"

SeqsUpTo(S, n) == UNION {[1..k -> S] : k \in 0..n}

Min(S) == CHOOSE x \in S : \A y \in S : x <= y

-----------------------------------------------------------------------------
(* Go values *)

ZeroDataBlob ==
    [ItemCache |-> [Wishlist |-> <<>>],
     CollectionData |-> [LastToken |-> ""],
     WishlistData |-> [LastToken |-> "", Sequence |-> <<>>],
     FanData |-> [ID |-> 0]]

ZeroResponse == [Items |-> <<>>, MoreAvailable |-> FALSE, LastToken |-> ""]

(* JSON documents, after lexing: what the text spells *)

JsonFanIds ==
    {[type |-> "number", n |-> n] : n \in FanIds}
      \cup {[type |-> "string", n |-> 0], [type |-> "absent", n |-> 0]}

JsonItemData ==
    {[present |-> FALSE, last_token |-> "", sequence |-> <<>>]}
      \cup [present : {TRUE}, last_token : Cursors, sequence : SeqsUpTo(Ids, MaxSeq)]

JsonItemFor(id) == [item_url |-> IF id = "a" THEN "u1" ELSE "u2"]

JsonCaches == {[id \in K |-> JsonItemFor(id)] : K \in SUBSET Ids}

MalformedDoc ==
    [wellformed |-> FALSE,
     fan_id |-> [type |-> "absent", n |-> 0],
     wishlist_data |-> [present |-> FALSE, last_token |-> "", sequence |-> <<>>],
     collection_data |-> [last_token |-> ""],
     item_cache |-> [wishlist |-> <<>>]]

BlobDocs ==
    {MalformedDoc} \cup
    [wellformed : {TRUE},
     fan_id : JsonFanIds,
     wishlist_data : JsonItemData,
     collection_data : [last_token : CollectionCursors],
     item_cache : [wishlist : JsonCaches]]

MalformedRespDoc ==
    [wellformed |-> FALSE, track_list |-> <<>>, more_available |-> FALSE,
     last_token |-> ""]

RespDocs ==
    {MalformedRespDoc} \cup
    [wellformed : {TRUE},
     track_list : SeqsUpTo([item_url : URLs], MaxItems),
     more_available : BOOLEAN,
     last_token : Cursors]

-----------------------------------------------------------------------------
(* The regular expression of main: the ID literal, a lazy run of any       *)
(* characters, the DB literal, a lazy captured run of any characters, then *)
(* a quote and a greater-than sign.  The dot matches every character but   *)
(* a newline.  A match starts at an ID                                     *)
(* lexeme at i, continues over newline-free text to a DB lexeme at j, and  *)
(* over newline-free text (the capture) to a Q lexeme at k followed by GT. *)

NoNewline(s, from, to) == \A p \in from..to : s[p] # NL

MatchesAt(s, i, j, k) ==
    /\ s[i] = ID
    /\ i < j /\ s[j] = DB
    /\ j < k /\ k + 1 <= Len(s)
    /\ s[k] = Q /\ s[k + 1] = GT
    /\ NoNewline(s, i + 1, j - 1)
    /\ NoNewline(s, j + 1, k - 1)

MatchStarts(s) ==
    {i \in 1..Len(s) : \E j, k \in 1..Len(s) : MatchesAt(s, i, j, k)}

(* Mutant: the capture greedy, running to the last quote and greater-than  *)
FindStringSubmatchGreedy(s) ==
    IF MatchStarts(s) = {} THEN <<>>
    ELSE LET i == Min(MatchStarts(s))
             j == Min({jj \in 1..Len(s) : \E kk \in 1..Len(s) : MatchesAt(s, i, jj, kk)})
             k == CHOOSE kk \in 1..Len(s) :
                    /\ MatchesAt(s, i, j, kk)
                    /\ \A k2 \in 1..Len(s) : MatchesAt(s, i, j, k2) => k2 <= kk
         IN <<SubSeq(s, i, k + 1), SubSeq(s, j + 1, k - 1)>>

(* Leftmost match; each lazy quantifier takes the shortest text that lets  *)
(* the rest of the pattern match.  No match is the nil slice.              *)
FindStringSubmatch(s) ==
    IF MatchStarts(s) = {} THEN <<>>
    ELSE LET i == Min(MatchStarts(s))
             j == Min({jj \in 1..Len(s) : \E kk \in 1..Len(s) : MatchesAt(s, i, jj, kk)})
             k == Min({kk \in 1..Len(s) : MatchesAt(s, i, j, kk)})
         IN <<SubSeq(s, i, k + 1), SubSeq(s, j + 1, k - 1)>>

(* strings.ReplaceAll of the quote entity by a quote: a JSONESC lexeme is   *)
(* JSON text with its quotes written as entities, and becomes plain JSON    *)
(* text.                                                                    *)
ReplaceLexeme(l) ==
    IF l = QUOT THEN Q ELSE IF l = JSONESC THEN JSON ELSE l

ReplaceAll(text) == [p \in 1..Len(text) |-> ReplaceLexeme(text[p])]

-----------------------------------------------------------------------------
(* encoding/json *)

(* json.Unmarshal into DataBlob: a syntax error leaves the value alone; a   *)
(* member of the wrong type is reported and skipped; an absent member       *)
(* leaves the zero value.                                                   *)
UnmarshalDataBlob(text, doc) ==
    IF text # <<JSON>> \/ ~doc.wellformed
    THEN [err |-> MalformedBlobError, value |-> ZeroDataBlob]
    ELSE [err |-> IF doc.fan_id.type = "string" THEN MalformedBlobError ELSE NoErr,
          value |->
            [ItemCache |->
               [Wishlist |-> [id \in DOMAIN doc.item_cache.wishlist |->
                                [ItemURL |-> doc.item_cache.wishlist[id].item_url]]],
             CollectionData |-> [LastToken |-> doc.collection_data.last_token],
             WishlistData |->
               IF doc.wishlist_data.present
               THEN [LastToken |-> doc.wishlist_data.last_token,
                     Sequence |-> doc.wishlist_data.sequence]
               ELSE ZeroDataBlob.WishlistData,
             FanData |-> [ID |-> IF doc.fan_id.type = "number" THEN doc.fan_id.n ELSE 0]]]

(* json.Unmarshal into APIItemsResponse *)
UnmarshalResponse(doc) ==
    IF ~doc.wellformed
    THEN [err |-> MalformedResponseError, value |-> ZeroResponse]
    ELSE [err |-> NoErr,
          value |-> [Items |-> [p \in 1..Len(doc.track_list) |->
                                  [ItemURL |-> doc.track_list[p].item_url]],
                     MoreAvailable |-> doc.more_available,
                     LastToken |-> doc.last_token]]

(* strconv.Itoa: the decimal digits, most significant first, after a minus *)
(* sign for a negative number.                                              *)
DigitChar(d) == <<"0", "1", "2", "3", "4", "5", "6", "7", "8", "9">>[d + 1]

RECURSIVE FormatBits(_)
FormatBits(n) ==
    IF n < 10 THEN <<DigitChar(n)>>
    ELSE Append(FormatBits(n \div 10), DigitChar(n % 10))

Itoa(n) == IF n < 0 THEN <<"-">> \o FormatBits(-n) ELSE FormatBits(n)

(* Mutant of the request: the cursor of the collection, not the wishlist *)
WishlistRequestCollectionCursor(blob) ==
    [fan_id |-> Itoa(blob.FanData.ID),
     older_than_token |-> blob.CollectionData.LastToken]

(* The argument expressions of the call in main and the request map of      *)
(* GetWishlist, as marshalled.                                              *)
WishlistRequest(blob) ==
    [fan_id |-> Itoa(blob.FanData.ID),
     older_than_token |-> blob.WishlistData.LastToken]

-----------------------------------------------------------------------------
(* The join of main: for each id of the sequence, range over the map in    *)
(* whatever order the runtime picks, print the first entry whose key is    *)
(* the id and break.                                                       *)

RECURSIVE ScanCache(_, _, _)
ScanCache(trackID, cache, order) ==
    IF order = <<>> THEN <<>>
    ELSE IF trackID = Head(order) THEN <<cache[Head(order)].ItemURL>>
    ELSE ScanCache(trackID, cache, Tail(order))

RECURSIVE Flatten(_)
Flatten(ss) == IF ss = <<>> THEN <<>> ELSE Head(ss) \o Flatten(Tail(ss))

(* Mutant: the loops swapped, the map outside and the sequence inside *)
JoinLinesCacheOrder(sequence, cache, orders) ==
    IF sequence = <<>> THEN <<>>
    ELSE Flatten([q \in 1..Len(orders[1]) |->
                    Flatten([p \in 1..Len(sequence) |->
                               IF sequence[p] = orders[1][q]
                               THEN <<cache[orders[1][q]].ItemURL>> ELSE <<>>])])

JoinLines(sequence, cache, orders) ==
    Flatten([p \in 1..Len(sequence) |-> ScanCache(sequence[p], cache, orders[p])])

(* The orders in which a range over a map of these keys can go *)
RangeOrders(keys) ==
    {o \in [1..Cardinality(keys) -> keys] : \A k \in keys : \E p \in DOMAIN o : o[p] = k}

-----------------------------------------------------------------------------
(* The run *)

Log(op, failed) == Append(steps, [op |-> op, failed |-> failed])

NoRequest == [fan_id |-> <<>>, older_than_token |-> ""]

(* Pages the GET can return *)
HtmlSamples ==
    {<<X, ID, X, DB, JSONESC, Q, GT, X>>,
     <<ID, DB, JSONESC, Q, GT>>,
     <<ID, DB, JSONESC, GT, X, Q, GT>>,
     <<ID, DB, QUOT, X, QUOT, Q, GT>>,
     <<ID, DB, Q, GT>>,
     <<ID, NL, DB, JSONESC, Q, GT>>,
     <<X, X>>,
     <<>>}

DocsFor(b) ==
    IF \E p \in DOMAIN b : b[p] = JSONESC THEN BlobDocs ELSE {MalformedDoc}

Init ==
    /\ pc = "get"
    /\ err = NoErr
    /\ stdout = <<>>
    /\ stderr = <<>>
    /\ exitCode = -1
    /\ getAcq = 0 /\ getRel = 0 /\ postAcq = 0 /\ postRel = 0
    /\ deferMain = FALSE /\ deferGw = FALSE
    /\ body = <<>>
    /\ blobDoc = MalformedDoc
    /\ datablobMatch = <<>>
    /\ pagedata = <<>>
    /\ datablob = ZeroDataBlob
    /\ request = NoRequest
    /\ respDoc = MalformedRespDoc
    /\ response = ZeroResponse
    /\ nextPage = ZeroResponse
    /\ steps = <<>>

(* resp, err := http.Get(...) *)
HttpGet ==
    /\ pc = "get"
    /\ \E ok \in BOOLEAN :
         /\ err' = IF ok THEN NoErr ELSE NetworkError
         /\ getAcq' = IF ok THEN getAcq + 1 ELSE getAcq
         /\ steps' = Log("HttpGet", ~ok)
    /\ pc' = "get_chk"
    /\ UNCHANGED <<stdout, stderr, exitCode, getRel, postAcq, postRel, deferMain,
                   deferGw, body, blobDoc, datablobMatch, pagedata, datablob,
                   request, respDoc, response, nextPage>>

(* if err != nil { fmt.Println(err); return }; defer resp.Body.Close() *)
GetErrCheck ==
    /\ pc = "get_chk"
    /\ IF err # NoErr
       THEN /\ stdout' = Append(stdout, err)
            /\ pc' = "ret"
            /\ UNCHANGED deferMain
       ELSE /\ deferMain' = TRUE
            /\ pc' = "read"
            /\ UNCHANGED stdout
    /\ steps' = Log("GetErrCheck", FALSE)
    /\ UNCHANGED <<err, stderr, exitCode, getAcq, getRel, postAcq, postRel,
                   deferGw, body, blobDoc, datablobMatch, pagedata, datablob,
                   request, respDoc, response, nextPage>>

(* body, err := ioutil.ReadAll(resp.Body) *)
ReadAllMain ==
    /\ pc = "read"
    /\ \E ok \in BOOLEAN :
         /\ err' = IF ok THEN NoErr ELSE ReadError
         /\ steps' = Log("ReadAllMain", ~ok)
         /\ IF ok
            THEN \E b \in HtmlSamples : \E d \in DocsFor(b) :
                   body' = b /\ blobDoc' = d
            ELSE UNCHANGED <<body, blobDoc>>
    /\ pc' = "read_chk"
    /\ UNCHANGED <<stdout, stderr, exitCode, getAcq, getRel, postAcq, postRel,
                   deferMain, deferGw, datablobMatch, pagedata, datablob,
                   request, respDoc, response, nextPage>>

(* if err != nil { fmt.Println(err); return } *)
ReadErrCheck ==
    /\ pc = "read_chk"
    /\ IF err # NoErr
       THEN stdout' = Append(stdout, err) /\ pc' = "ret"
       ELSE UNCHANGED stdout /\ pc' = "find"
    /\ steps' = Log("ReadErrCheck", FALSE)
    /\ UNCHANGED <<err, stderr, exitCode, getAcq, getRel, postAcq, postRel,
                   deferMain, deferGw, body, blobDoc, datablobMatch, pagedata,
                   datablob, request, respDoc, response, nextPage>>

(* datablobMatch := datablobExp.FindStringSubmatch(string(body)) *)
FindSubmatch ==
    /\ pc = "find"
    /\ datablobMatch' = FindStringSubmatch(body)
    /\ steps' = Log("FindSubmatch", FALSE)
    /\ pc' = "index"
    /\ UNCHANGED <<err, stdout, stderr, exitCode, getAcq, getRel, postAcq,
                   postRel, deferMain, deferGw, body, blobDoc, pagedata,
                   datablob, request, respDoc, response, nextPage>>

(* pagedata := strings.ReplaceAll(datablobMatch[1], ...): the index        *)
(* expression panics on a slice shorter than two.                          *)
IndexAndReplace ==
    /\ pc = "index"
    /\ IF Len(datablobMatch) < 2
       THEN /\ pc' = "panic"
            /\ steps' = Log("IndexAndReplace", TRUE)
            /\ UNCHANGED pagedata
       ELSE /\ pagedata' = ReplaceAll(datablobMatch[2])
            /\ pc' = "unmarshal"
            /\ steps' = Log("IndexAndReplace", FALSE)
    /\ UNCHANGED <<err, stdout, stderr, exitCode, getAcq, getRel, postAcq,
                   postRel, deferMain, deferGw, body, blobDoc, datablobMatch,
                   datablob, request, respDoc, response, nextPage>>

(* err := json.Unmarshal([]byte(pagedata), &datablob) *)
UnmarshalBlob ==
    /\ pc = "unmarshal"
    /\ LET r == UnmarshalDataBlob(pagedata, blobDoc)
       IN /\ err' = r.err
          /\ datablob' = r.value
          /\ steps' = Log("UnmarshalBlob", r.err # NoErr)
    /\ pc' = "blob_chk"
    /\ UNCHANGED <<stdout, stderr, exitCode, getAcq, getRel, postAcq, postRel,
                   deferMain, deferGw, body, blobDoc, datablobMatch, pagedata,
                   request, respDoc, response, nextPage>>

(* Mutant: the error is printed and the return is missing *)
BlobErrCheckNoReturn ==
    /\ pc = "blob_chk"
    /\ IF err # NoErr
       THEN stdout' = Append(stdout, err) /\ pc' = "join"
       ELSE UNCHANGED stdout /\ pc' = "join"
    /\ steps' = Log("BlobErrCheck", FALSE)
    /\ UNCHANGED <<err, stderr, exitCode, getAcq, getRel, postAcq, postRel,
                   deferMain, deferGw, body, blobDoc, datablobMatch, pagedata,
                   datablob, request, respDoc, response, nextPage>>

(* if err != nil { fmt.Println(err); return } *)
BlobErrCheck ==
    /\ pc = "blob_chk"
    /\ IF err # NoErr
       THEN stdout' = Append(stdout, err) /\ pc' = "ret"
       ELSE UNCHANGED stdout /\ pc' = "join"
    /\ steps' = Log("BlobErrCheck", FALSE)
    /\ UNCHANGED <<err, stderr, exitCode, getAcq, getRel, postAcq, postRel,
                   deferMain, deferGw, body, blobDoc, datablobMatch, pagedata,
                   datablob, request, respDoc, response, nextPage>>

(* for _, trackID := range Sequence { for id, item := range Wishlist ... } *)
JoinAndPrint ==
    /\ pc = "join"
    /\ LET sequence == datablob.WishlistData.Sequence
           cache == datablob.ItemCache.Wishlist
       IN \E orders \in [1..Len(sequence) -> RangeOrders(DOMAIN cache)] :
            stdout' = stdout \o JoinLines(sequence, cache, orders)
    /\ steps' = Log("JoinAndPrint", FALSE)
    /\ pc' = "post"
    /\ UNCHANGED <<err, stderr, exitCode, getAcq, getRel, postAcq, postRel,
                   deferMain, deferGw, body, blobDoc, datablobMatch, pagedata,
                   datablob, request, respDoc, response, nextPage>>

(* nextPage, err := GetWishlist(strconv.Itoa(ID), LastToken): the request *)
(* is marshalled and posted.                                               *)
HttpPost ==
    /\ pc = "post"
    /\ request' = WishlistRequest(datablob)
    /\ \E ok \in BOOLEAN :
         /\ err' = IF ok THEN NoErr ELSE NetworkError
         /\ postAcq' = IF ok THEN postAcq + 1 ELSE postAcq
         /\ steps' = Log("HttpPost", ~ok)
    /\ pc' = "gw_post_chk"
    /\ UNCHANGED <<stdout, stderr, exitCode, getAcq, getRel, postRel, deferMain,
                   deferGw, body, blobDoc, datablobMatch, pagedata, datablob,
                   respDoc, response, nextPage>>

(* if err != nil { return APIItemsResponse{}, err }; defer resp.Body.Close() *)
GwPostErrCheck ==
    /\ pc = "gw_post_chk"
    /\ IF err # NoErr
       THEN /\ nextPage' = ZeroResponse
            /\ pc' = "post_chk"
            /\ UNCHANGED deferGw
       ELSE /\ deferGw' = TRUE
            /\ pc' = "gw_read"
            /\ UNCHANGED nextPage
    /\ steps' = Log("GwPostErrCheck", FALSE)
    /\ UNCHANGED <<err, stdout, stderr, exitCode, getAcq, getRel, postAcq,
                   postRel, deferMain, body, blobDoc, datablobMatch, pagedata,
                   datablob, request, respDoc, response>>

(* body, err := ioutil.ReadAll(resp.Body) *)
GwReadAll ==
    /\ pc = "gw_read"
    /\ \E ok \in BOOLEAN :
         /\ err' = IF ok THEN NoErr ELSE ReadError
         /\ steps' = Log("GwReadAll", ~ok)
         /\ IF ok
            THEN \E d \in RespDocs : respDoc' = d
            ELSE UNCHANGED respDoc
    /\ pc' = "gw_read_chk"
    /\ UNCHANGED <<stdout, stderr, exitCode, getAcq, getRel, postAcq, postRel,
                   deferMain, deferGw, body, blobDoc, datablobMatch, pagedata,
                   datablob, request, response, nextPage>>

(* if err != nil { fmt.Println(err); return APIItemsResponse{}, err } *)
GwReadErrCheck ==
    /\ pc = "gw_read_chk"
    /\ IF err # NoErr
       THEN stdout' = Append(stdout, err) /\ pc' = "gw_ret"
       ELSE UNCHANGED stdout /\ pc' = "gw_unmarshal"
    /\ steps' = Log("GwReadErrCheck", FALSE)
    /\ UNCHANGED <<err, stderr, exitCode, getAcq, getRel, postAcq, postRel,
                   deferMain, deferGw, body, blobDoc, datablobMatch, pagedata,
                   datablob, request, respDoc, response, nextPage>>

(* if err = json.Unmarshal(body, &response); err != nil { return ... } *)
GwUnmarshal ==
    /\ pc = "gw_unmarshal"
    /\ LET r == UnmarshalResponse(respDoc)
       IN /\ err' = r.err
          /\ response' = r.value
          /\ steps' = Log("GwUnmarshal", r.err # NoErr)
    /\ pc' = "gw_ret"
    /\ UNCHANGED <<stdout, stderr, exitCode, getAcq, getRel, postAcq, postRel,
                   deferMain, deferGw, body, blobDoc, datablobMatch, pagedata,
                   datablob, request, respDoc, nextPage>>

(* Mutant: the body is left open on the error returns *)
GwReturnLeak ==
    /\ pc = "gw_ret"
    /\ nextPage' = IF err = NoErr THEN response ELSE ZeroResponse
    /\ postRel' = IF deferGw /\ err = NoErr THEN postRel + 1 ELSE postRel
    /\ deferGw' = FALSE
    /\ steps' = Log("GwReturn", FALSE)
    /\ pc' = "post_chk"
    /\ UNCHANGED <<err, stdout, stderr, exitCode, getAcq, getRel, postAcq,
                   deferMain, body, blobDoc, datablobMatch, pagedata, datablob,
                   request, respDoc, response>>

(* return response, nil / return APIItemsResponse{}, err: the deferred      *)
(* Close runs, and main receives the results.                               *)
GwReturn ==
    /\ pc = "gw_ret"
    /\ nextPage' = IF err = NoErr THEN response ELSE ZeroResponse
    /\ postRel' = IF deferGw THEN postRel + 1 ELSE postRel
    /\ deferGw' = FALSE
    /\ steps' = Log("GwReturn", FALSE)
    /\ pc' = "post_chk"
    /\ UNCHANGED <<err, stdout, stderr, exitCode, getAcq, getRel, postAcq,
                   deferMain, body, blobDoc, datablobMatch, pagedata, datablob,
                   request, respDoc, response>>

(* if err != nil { fmt.Println(err); return } *)
PostErrCheck ==
    /\ pc = "post_chk"
    /\ IF err # NoErr
       THEN stdout' = Append(stdout, err) /\ pc' = "ret"
       ELSE UNCHANGED stdout /\ pc' = "print_next"
    /\ steps' = Log("PostErrCheck", FALSE)
    /\ UNCHANGED <<err, stderr, exitCode, getAcq, getRel, postAcq, postRel,
                   deferMain, deferGw, body, blobDoc, datablobMatch, pagedata,
                   datablob, request, respDoc, response, nextPage>>

ItemLines(items) == [p \in 1..Len(items) |-> items[p].ItemURL]

(* Mutant: a pagination loop, posting again while more is available *)
PrintNextPageLoop ==
    /\ pc = "print_next"
    /\ stdout' = stdout \o ItemLines(nextPage.Items)
    /\ steps' = Log("PrintNextPage", FALSE)
    /\ pc' = IF nextPage.MoreAvailable THEN "post" ELSE "ret"
    /\ UNCHANGED <<err, stderr, exitCode, getAcq, getRel, postAcq, postRel,
                   deferMain, deferGw, body, blobDoc, datablobMatch, pagedata,
                   datablob, request, respDoc, response, nextPage>>

(* Mutant: the items are printed only when more is available *)
PrintNextPageIfMore ==
    /\ pc = "print_next"
    /\ stdout' = IF nextPage.MoreAvailable
                 THEN stdout \o ItemLines(nextPage.Items) ELSE stdout
    /\ steps' = Log("PrintNextPage", FALSE)
    /\ pc' = "ret"
    /\ UNCHANGED <<err, stderr, exitCode, getAcq, getRel, postAcq, postRel,
                   deferMain, deferGw, body, blobDoc, datablobMatch, pagedata,
                   datablob, request, respDoc, response, nextPage>>

(* for _, item := range nextPage.Items { fmt.Println(item.ItemURL) } *)
PrintNextPage ==
    /\ pc = "print_next"
    /\ stdout' = stdout \o ItemLines(nextPage.Items)
    /\ steps' = Log("PrintNextPage", FALSE)
    /\ pc' = "ret"
    /\ UNCHANGED <<err, stderr, exitCode, getAcq, getRel, postAcq, postRel,
                   deferMain, deferGw, body, blobDoc, datablobMatch, pagedata,
                   datablob, request, respDoc, response, nextPage>>

(* main returns: its deferred Close runs and the process exits with 0 *)
MainReturn ==
    /\ pc = "ret"
    /\ getRel' = IF deferMain THEN getRel + 1 ELSE getRel
    /\ deferMain' = FALSE
    /\ exitCode' = 0
    /\ steps' = Log("MainReturn", FALSE)
    /\ pc' = "done"
    /\ UNCHANGED <<err, stdout, stderr, postAcq, postRel, getAcq, deferGw, body,
                   blobDoc, datablobMatch, pagedata, datablob, request, respDoc,
                   response, nextPage>>

(* The index panic unwinds main: its deferred Close runs, the runtime       *)
(* writes the panic to standard error and the process exits with 2.         *)
PanicUnwind ==
    /\ pc = "panic"
    /\ getRel' = IF deferMain THEN getRel + 1 ELSE getRel
    /\ deferMain' = FALSE
    /\ stderr' = Append(stderr, PanicMessage)
    /\ exitCode' = 2
    /\ steps' = Log("PanicUnwind", FALSE)
    /\ pc' = "done"
    /\ UNCHANGED <<err, stdout, postAcq, postRel, getAcq, deferGw, body, blobDoc,
                   datablobMatch, pagedata, datablob, request, respDoc, response,
                   nextPage>>

Next ==
    \/ HttpGet \/ GetErrCheck \/ ReadAllMain \/ ReadErrCheck
    \/ FindSubmatch \/ IndexAndReplace \/ UnmarshalBlob \/ BlobErrCheck
    \/ JoinAndPrint
    \/ HttpPost \/ GwPostErrCheck \/ GwReadAll \/ GwReadErrCheck
    \/ GwUnmarshal \/ GwReturn \/ PostErrCheck \/ PrintNextPage
    \/ MainReturn \/ PanicUnwind

Spec == Init /\ [][Next]_vars

(* The extraction alone, started where main has read a body, over every    *)
(* body of up to MaxBody lexemes.                                           *)
InitExtract ==
    /\ pc = "find"
    /\ err = NoErr
    /\ stdout = <<>>
    /\ stderr = <<>>
    /\ exitCode = -1
    /\ getAcq = 1 /\ getRel = 0 /\ postAcq = 0 /\ postRel = 0
    /\ deferMain = TRUE /\ deferGw = FALSE
    /\ body \in SeqsUpTo(Lexemes, MaxBody)
    /\ blobDoc = MalformedDoc
    /\ datablobMatch = <<>>
    /\ pagedata = <<>>
    /\ datablob = ZeroDataBlob
    /\ request = NoRequest
    /\ respDoc = MalformedRespDoc
    /\ response = ZeroResponse
    /\ nextPage = ZeroResponse
    /\ steps = <<[op |-> "HttpGet", failed |-> FALSE],
                 [op |-> "GetErrCheck", failed |-> FALSE],
                 [op |-> "ReadAllMain", failed |-> FALSE],
                 [op |-> "ReadErrCheck", failed |-> FALSE]>>

NextExtract == FindSubmatch \/ IndexAndReplace \/ PanicUnwind

SpecExtract == InitExtract /\ [][NextExtract]_vars

-----------------------------------------------------------------------------
(* Vocabulary of the properties *)

Did(op) == \E p \in DOMAIN steps : steps[p].op = op

OkStep(op) == \E p \in DOMAIN steps : steps[p].op = op /\ ~steps[p].failed

FailedStep(op) == \E p \in DOMAIN steps : steps[p].op = op /\ steps[p].failed

Count(op) == Cardinality({p \in DOMAIN steps : steps[p].op = op})

Failures == {p \in DOMAIN steps : steps[p].failed}

Before(a, b) ==
    \E p, q \in DOMAIN steps : p < q /\ steps[p].op = a /\ steps[q].op = b

UrlLines(out) == SelectSeq(out, LAMBDA l : l \notin ErrorMessages)

ErrLines(out) == SelectSeq(out, LAMBDA l : l \in ErrorMessages)

(* The statements that do the work of the run, as opposed to the error     *)
(* checks and the returns.                                                 *)
WorkOps ==
    {"HttpGet", "ReadAllMain", "FindSubmatch", "IndexAndReplace", "UnmarshalBlob",
     "JoinAndPrint", "HttpPost", "GwReadAll", "GwUnmarshal", "PrintNextPage"}

(* The ids of the sequence that are keys of the cache, in sequence order,  *)
(* each replaced by the URL of its entry.                                  *)
ExpectedJoin(sequence, cache) ==
    LET present == SelectSeq(sequence, LAMBDA id : id \in DOMAIN cache)
    IN [p \in 1..Len(present) |-> cache[present[p]].ItemURL]

FirstPage == ExpectedJoin(datablob.WishlistData.Sequence, datablob.ItemCache.Wishlist)

-----------------------------------------------------------------------------
(* C1: once the blob is decoded and the join has run, standard output      *)
(* holds, for each position of the sequence in sequence order, the URL of  *)
(* the cache entry whose key is the id at that position, and nothing for   *)
(* an id that is no key; an empty sequence or an empty cache gives no      *)
(* output.  The order in which the map is ranged over does not show.       *)
C1_JoinInSequenceOrder ==
    pc = "post" =>
      /\ stdout = FirstPage
      /\ (datablob.WishlistData.Sequence = <<>> => stdout = <<>>)
      /\ (DOMAIN datablob.ItemCache.Wishlist = {} => stdout = <<>>)

C1_Witness ==
    /\ pc = "post"
    /\ datablob.WishlistData.Sequence = <<"b", "a", "b">>
    /\ DOMAIN datablob.ItemCache.Wishlist = {"a", "b"}
    /\ stdout = <<"u2", "u1", "u2">>

(* C2: when the pattern finds no match in the body, the run fails with a   *)
(* checked error and never with a panic.                                   *)
C2_NoMatchIsCheckedError ==
    (Did("FindSubmatch") /\ datablobMatch = <<>>) =>
      /\ pc # "panic"
      /\ stderr = <<>>
      /\ exitCode # 2

(* C3: a run in which a step failed ends with the error on standard        *)
(* output and exit status zero.                                            *)
C3_FailureOnStdoutExitZero ==
    (pc = "done" /\ Failures # {}) =>
      /\ ErrLines(stdout) # <<>>
      /\ exitCode = 0

(* The text the extraction is said to yield when the capture is taken to  *)
(* end at the next greater-than sign: from behind the DB lexeme at j up to *)
(* that sign, less the closing quote, unescaped.                           *)
TextToNextGT(s, j) ==
    LET g == Min({p \in (j + 1)..Len(s) : s[p] = GT})
        raw == SubSeq(s, j + 1, g - 1)
        text == IF raw # <<>> /\ raw[Len(raw)] = Q
                THEN SubSeq(raw, 1, Len(raw) - 1) ELSE raw
    IN [p \in 1..Len(text) |-> IF text[p] = QUOT THEN Q ELSE text[p]]

(* ID at i, DB at j, a quote at k with a greater-than sign behind it, and  *)
(* no newline from i to k.                                                 *)
OnOneLine(s, i, j, k) ==
    /\ 1 <= i /\ i < j /\ j < k /\ k < Len(s)
    /\ s[i] = ID /\ s[j] = DB /\ s[k] = Q /\ s[k + 1] = GT
    /\ \A p \in i..k : s[p] # NL

C5_FirstErrorEndsRun ==
    /\ \A op \in WorkOps : Count(op) <= 1
    /\ Failures # {} =>
         LET f == Min(Failures)
         IN /\ Failures = {f}
            /\ \A p \in DOMAIN steps : p > f => steps[p].op \notin WorkOps
            /\ UrlLines(stdout) =
                 IF \E p \in 1..f : steps[p].op = "JoinAndPrint"
                 THEN FirstPage ELSE <<>>

C5_Witness ==
    /\ pc = "done"
    /\ FailedStep("GwUnmarshal")
    /\ UrlLines(stdout) = <<"u1", "u2">>

(* C6: the POST is issued at most once, and only behind a successful GET,  *)
(* body read, extraction, decode and the listing of the first page, in     *)
(* that order; a run in which the decode succeeded has issued exactly one  *)
(* POST when it ends, whatever the response says about more items.         *)
C6_OnePostAfterFirstPage ==
    /\ Count("HttpPost") <= 1
    /\ Did("HttpPost") =>
         /\ OkStep("HttpGet") /\ OkStep("ReadAllMain") /\ OkStep("IndexAndReplace")
         /\ OkStep("UnmarshalBlob")
         /\ Before("HttpGet", "ReadAllMain")
         /\ Before("ReadAllMain", "FindSubmatch")
         /\ Before("FindSubmatch", "IndexAndReplace")
         /\ Before("IndexAndReplace", "UnmarshalBlob")
         /\ Before("UnmarshalBlob", "JoinAndPrint")
         /\ Before("JoinAndPrint", "HttpPost")
    /\ (pc = "done" /\ OkStep("UnmarshalBlob")) => Count("HttpPost") = 1

C6_Witness ==
    /\ pc = "done"
    /\ nextPage.MoreAvailable
    /\ nextPage.LastToken = "w:1"
    /\ Count("HttpPost") = 1

(* strconv.Atoi, for reading a request back *)
DigitValue(c) == CHOOSE d \in 0..9 : DigitChar(d) = c

RECURSIVE ParseDigits(_)
ParseDigits(cs) ==
    IF Len(cs) = 1 THEN DigitValue(cs[1])
    ELSE 10 * ParseDigits(SubSeq(cs, 1, Len(cs) - 1)) + DigitValue(cs[Len(cs)])

Atoi(cs) == IF cs[1] = "-" THEN 0 - ParseDigits(Tail(cs)) ELSE ParseDigits(cs)

(* C7: the request of the POST has the two members fan_id and              *)
(* older_than_token; fan_id is the decimal form of the fan id of the blob, *)
(* without leading zeros; older_than_token is the last_token of the        *)
(* wishlist_data of the blob; and a run whose decode succeeded posts, also *)
(* with an empty token.                                                    *)
C7_RequestCarriesFanAndWishlistCursor ==
    /\ Did("HttpPost") =>
         /\ DOMAIN request = {"fan_id", "older_than_token"}
         /\ request.fan_id # <<>>
         /\ Atoi(request.fan_id) = blobDoc.fan_id.n
         /\ Atoi(request.fan_id) = datablob.FanData.ID
         /\ (Len(request.fan_id) > 1 => request.fan_id[1] # "0")
         /\ request.older_than_token = blobDoc.wishlist_data.last_token
    /\ (pc = "done" /\ OkStep("UnmarshalBlob")) => Did("HttpPost")

C7_Witness ==
    /\ Did("HttpPost")
    /\ request = [fan_id |-> <<"3", "0", "5">>, older_than_token |-> ""]
    /\ blobDoc.collection_data.last_token = "c:9"

(* C8: a body is closed at most once and only when acquired; the POST body *)
(* is closed when GetWishlist has returned; and when the run has ended, by *)
(* return or by panic, every acquired body is closed.                      *)
C8_BodiesReleased ==
    /\ getRel <= getAcq /\ getAcq <= 1
    /\ postRel <= postAcq /\ postAcq <= 1
    /\ pc \in {"post_chk", "print_next", "ret"} => postRel = postAcq
    /\ pc = "done" => (getRel = getAcq /\ postRel = postAcq)

C8_Witness ==
    /\ pc = "done"
    /\ exitCode = 2
    /\ getAcq = 1 /\ getRel = 1

(* C9: a run whose response was decoded ends with the URLs of the first    *)
(* page on standard output, followed by the item_url of every element of   *)
(* track_list in list order, whether or not more is available.             *)
C9_AllItemsPrinted ==
    (pc = "done" /\ OkStep("GwUnmarshal")) =>
      stdout = FirstPage \o [p \in 1..Len(respDoc.track_list) |->
                               respDoc.track_list[p].item_url]

C9_Witness ==
    /\ pc = "done"
    /\ OkStep("GwUnmarshal")
    /\ ~respDoc.more_available
    /\ Len(respDoc.track_list) = 2
    /\ stdout = <<"u1", "u2", "u1">>

(* C10: a run that ends by a return has written one error message when a   *)
(* step failed and none when no step failed.                               *)
C10_OneMessagePerError ==
    (pc = "done" /\ exitCode = 0) =>
      Len(ErrLines(stdout)) = IF Failures # {} THEN 1 ELSE 0

=============================================================================
